---- MODULE Spec2Model ----
(***************************************************************************)
(* safe-tee: tee(stream, { maxChunkDifference }) duplicates a              *)
(* ReadableStream into two outputs and keeps the two legs within a         *)
(* chunk-count distance of each other.                                     *)
(*                                                                         *)
(* The model follows the configurable tee (export default function tee     *)
(* (stream, options = {})): its argument validation, the two counters and  *)
(* wake slots, the two transform() callbacks, and the platform objects the *)
(* function wires together (stream.tee(), pipeThrough, TransformStream).   *)
(*                                                                         *)
(* Leg 1 is rawStream1 -> transform1 -> first output, leg 2 is             *)
(* rawStream2 -> transform2 -> second output.  transform1 and transform2   *)
(* are the same code with the indices swapped, so every per-leg variable   *)
(* is a function on Legs.                                                  *)
(*                                                                         *)
(* Each consumer reads sequentially: it issues one read() and waits for    *)
(* it to settle before the next, and may cancel its output at any time.    *)
(***************************************************************************)
EXTENDS Integers, Sequences, FiniteSets, TLC

\* ------------------------------------------------------------------ bounds
MaxLen == 3   \* longest source sequence
MaxD == 2     \* largest finite maxChunkDifference passed to tee
MaxCallLen == 2  \* longest source in the runs that call tee repeatedly

\* ------------------------------------------------------------------ inputs
Legs == {1, 2}
Other(l) == 3 - l

\* the chunks a source can emit
Chunks == {"a", "b"}

\* every source sequence of length 0..MaxLen
Sources == UNION {[1..n -> Chunks] : n \in 0..MaxLen}

\* what a caller can pass as the first argument
StreamArgs == {"ReadableStream", "string", "number", "object", "null"}

\* what a caller can pass as options.maxChunkDifference
OptionArgs ==
    {[kind |-> "omitted", n |-> 0], [kind |-> "Infinity", n |-> 0],
     [kind |-> "NaN", n |-> 0], [kind |-> "string", n |-> 0]}
    \cup {[kind |-> "number", n |-> k] : k \in -1..MaxD}

VARIABLES
    source,              \* the items the source stream will emit, in order
    stage,               \* "init" | "threw" | "teed": "teed" once a call has returned
    thrown,              \* message of the TypeError of the last call, "" if none
    options,             \* options.maxChunkDifference of the last call on the
                         \* source while no call had returned yet
    maxChunkDifference,  \* the destructured (defaulted) value
    locked,              \* the original stream is locked by stream.tee()
    srcPos,              \* number of items stream.tee() has read from the source
    srcState,            \* "readable" | "closed" | "errored" | "canceled"
    rawStream,           \* rawStream1/2: chunks queued in each tee branch
    inflight,            \* chunk written by the pipe to transform1/2, <<>> if none
    legState,            \* position of transform(): "idle" | "suspended" | "woken"
    waiting,             \* waiting1/2: TRUE iff the slot holds a callback
    chunkCount,          \* chunkCount1/2
    out,                 \* chunks delivered to each consumer
    outState,            \* readable side: "readable" | "closed" | "errored" | "canceled"
    cons                 \* consumer: "idle" | "reading" | "done" | "failed" | "canceled"

vars == <<source, stage, thrown, options, maxChunkDifference, locked, srcPos,
          srcState, rawStream, inflight, legState, waiting, chunkCount, out,
          outState, cons>>

\* -------------------------------------------------------------- validation
\* stream instanceof ReadableStream
IsReadableStream_duck(stream) == stream \in {"ReadableStream", "object"}

IsReadableStream(stream) == stream = "ReadableStream"

\* const { maxChunkDifference = 1 } = options
Destructure(opt) ==
    IF opt.kind = "omitted" THEN [kind |-> "number", n |-> 1] ELSE opt

\* typeof v !== "number" || v < 0 || isNaN(v)
InvalidMaxChunkDifference_noNaN(v) ==
    \/ v.kind = "string"
    \/ (v.kind = "number" /\ v.n < 0)

InvalidMaxChunkDifference(v) ==
    \/ v.kind = "string"
    \/ (v.kind = "number" /\ v.n < 0)
    \/ v.kind = "NaN"

\* ------------------------------------------------------------ coordination
\* chunkCount1 > chunkCount2 + maxChunkDifference
TooFarAhead_finite(own, other, mcd) ==
    IF mcd.kind = "Infinity" THEN own > other + 1 ELSE own > other + mcd.n

TooFarAhead_ge(own, other, mcd) ==
    IF mcd.kind = "Infinity" THEN FALSE ELSE own >= other + mcd.n

TooFarAhead_swapped(own, other, mcd) ==
    IF mcd.kind = "Infinity" THEN FALSE ELSE other > own + mcd.n

TooFarAhead_loose(own, other, mcd) ==
    IF mcd.kind = "Infinity" THEN FALSE ELSE own > other + mcd.n + 1

TooFarAhead(own, other, mcd) ==
    IF mcd.kind = "Infinity" THEN FALSE ELSE own > other + mcd.n

\* let chunkCount1 = 0; let chunkCount2 = 0;
InitCounts_one == [l \in Legs |-> 1]

InitCounts == [l \in Legs |-> 0]

\* controller.enqueue(chunk) on a readable side that accepts chunks
Enqueue_twice(o, chunk) == Append(Append(o, chunk), chunk)

Enqueue_none(o, chunk) == o

Enqueue(o, chunk) == Append(o, chunk)

\* if (waiting2) { waiting2(); }  -- does the forward step wake the sibling
WakesSibling_never(w) == FALSE

WakesSibling(w) == w

\* waiting1 = null, the first statement of the wake callback: the slot's
\* content once the callback has run
ClearedSlot_kept == TRUE

ClearedSlot == FALSE

\* pipeTo's loop: with no write pending, the next queued chunk of the branch
\* is read and written to the transform's writable side
Pipe(q, w) ==
    IF w = <<>> /\ q # <<>>
    THEN [queue |-> Tail(q), write |-> <<Head(q)>>]
    ELSE [queue |-> q, write |-> w]

\* the pipe has canceled its tee branch: the output was canceled, or a
\* transform() that threw has errored it
BranchCanceled(l) == outState[l] \in {"canceled", "errored"}

\* a tee branch asks the source for more while its queue is below its
\* high-water mark of 1
BranchWants(l) == ~BranchCanceled(l) /\ rawStream[l] = <<>>

\* ------------------------------------------------------------------ state
Init ==
    /\ source \in Sources
    /\ stage = "init"
    /\ thrown = ""
    /\ options = [kind |-> "omitted", n |-> 0]
    /\ maxChunkDifference = [kind |-> "number", n |-> 1]
    /\ locked = FALSE
    /\ srcPos = 0
    /\ srcState = "readable"
    /\ rawStream = [l \in Legs |-> <<>>]
    /\ inflight = [l \in Legs |-> <<>>]
    /\ legState = [l \in Legs |-> "idle"]
    /\ waiting = [l \in Legs |-> FALSE]
    /\ chunkCount = InitCounts
    /\ out = [l \in Legs |-> <<>>]
    /\ outState = [l \in Legs |-> "readable"]
    /\ cons = [l \in Legs |-> "idle"]

\* ---------------------------------------------------------------- tee(...)
\* the TypeError of stream.tee() and stream.getReader() on a locked stream
LockedError == "ReadableStream is locked"

\* stream.tee() / stream.getReader() throw iff the stream is locked
ThrowsIfLocked_never(isLocked) == FALSE

ThrowsIfLocked(isLocked) == isLocked

Tee_teeFirst(stream, opt) ==
    /\ options' = IF stage = "teed" THEN options ELSE opt
    /\ IF ~IsReadableStream(stream)
       THEN /\ stage' = IF stage = "teed" THEN stage ELSE "threw"
            /\ thrown' = "Argument must be a ReadableStream"
            /\ UNCHANGED <<maxChunkDifference, locked>>
       ELSE IF ThrowsIfLocked(locked)
       THEN /\ stage' = IF stage = "teed" THEN stage ELSE "threw"
            /\ thrown' = LockedError
            /\ UNCHANGED <<maxChunkDifference, locked>>
       ELSE IF InvalidMaxChunkDifference(Destructure(opt))
       THEN /\ stage' = IF stage = "teed" THEN stage ELSE "threw"
            /\ thrown' = "maxChunkDifference must be a non-negative number"
            /\ locked' = TRUE
            /\ UNCHANGED maxChunkDifference
       ELSE /\ stage' = "teed"
            /\ thrown' = ""
            /\ maxChunkDifference' = Destructure(opt)
            /\ locked' = TRUE
    /\ UNCHANGED <<source, srcPos, srcState, rawStream, inflight, legState,
                   waiting, chunkCount, out, outState, cons>>

\* A call of tee(stream, options) with the source (or a non-stream value)
\* as first argument.  The two throw statements leave everything but the
\* call's outcome alone, and so does a stream.tee() that throws because
\* the source is locked; a call that passes runs stream.tee(), declares
\* the counters and wake slots and returns the two piped outputs.
Tee(stream, opt) ==
    /\ options' = IF stage = "teed" THEN options ELSE opt
    /\ IF ~IsReadableStream(stream)
       THEN /\ stage' = IF stage = "teed" THEN stage ELSE "threw"
            /\ thrown' = "Argument must be a ReadableStream"
            /\ UNCHANGED <<maxChunkDifference, locked>>
       ELSE IF InvalidMaxChunkDifference(Destructure(opt))
       THEN /\ stage' = IF stage = "teed" THEN stage ELSE "threw"
            /\ thrown' = "maxChunkDifference must be a non-negative number"
            /\ UNCHANGED <<maxChunkDifference, locked>>
       ELSE IF ThrowsIfLocked(locked)
       THEN /\ stage' = IF stage = "teed" THEN stage ELSE "threw"
            /\ thrown' = LockedError
            /\ UNCHANGED <<maxChunkDifference, locked>>
       ELSE /\ stage' = "teed"
            /\ thrown' = ""
            /\ maxChunkDifference' = Destructure(opt)
            /\ locked' = TRUE
    /\ UNCHANGED <<source, srcPos, srcState, rawStream, inflight, legState,
                   waiting, chunkCount, out, outState, cons>>

\* source.getReader() called by some other party: throws on a locked
\* source, locks it otherwise
GetReader ==
    /\ IF ThrowsIfLocked(locked)
       THEN thrown' = LockedError /\ UNCHANGED locked
       ELSE thrown' = "" /\ locked' = TRUE
    /\ UNCHANGED <<source, stage, options, maxChunkDifference, srcPos,
                   srcState, rawStream, inflight, legState, waiting,
                   chunkCount, out, outState, cons>>

\* ------------------------------------------------------------ stream.tee()
\* The platform tee reads the next source item when a branch asks for one
\* and enqueues it in every branch that is not canceled; each pipe moves
\* the chunk on to its transform if it has no write pending.
TeePull ==
    /\ stage = "teed"
    /\ srcState = "readable"
    /\ srcPos < Len(source)
    /\ \E l \in Legs : BranchWants(l)
    /\ srcPos' = srcPos + 1
    /\ LET chunk == source[srcPos + 1]
           p(l) == IF BranchCanceled(l)
                   THEN [queue |-> rawStream[l], write |-> inflight[l]]
                   ELSE Pipe(Append(rawStream[l], chunk), inflight[l])
       IN /\ rawStream' = [l \in Legs |-> p(l).queue]
          /\ inflight' = [l \in Legs |-> p(l).write]
    /\ UNCHANGED <<source, stage, thrown, options, maxChunkDifference, locked,
                   srcState, legState, waiting, chunkCount, out, outState, cons>>

\* The source reports end-of-stream to the platform tee: both branches
\* close once their queued chunks are drained.
TeeClose ==
    /\ stage = "teed"
    /\ srcState = "readable"
    /\ srcPos = Len(source)
    /\ \E l \in Legs : BranchWants(l)
    /\ srcState' = "closed"
    /\ UNCHANGED <<source, stage, thrown, options, maxChunkDifference, locked,
                   srcPos, rawStream, inflight, legState, waiting, chunkCount,
                   out, outState, cons>>

\* The source fails: the platform tee errors both branches, which drops the
\* chunks still queued in them.
SourceError ==
    /\ stage = "teed"
    /\ srcState = "readable"
    /\ srcState' = "errored"
    /\ rawStream' = [l \in Legs |-> <<>>]
    /\ UNCHANGED <<source, stage, thrown, options, maxChunkDifference, locked,
                   srcPos, inflight, legState, waiting, chunkCount, out,
                   outState, cons>>

\* --------------------------------------------------------------- consumers
\* reader.read() on output l
Read(l) ==
    /\ stage = "teed"
    /\ cons[l] = "idle"
    /\ cons' = [cons EXCEPT ![l] = "reading"]
    /\ UNCHANGED <<source, stage, thrown, options, maxChunkDifference, locked,
                   srcPos, srcState, rawStream, inflight, legState, waiting,
                   chunkCount, out, outState>>

\* a pending read() on a closed output resolves {done: true}; on an errored
\* output it rejects
ReadSettle(l) ==
    /\ cons[l] = "reading"
    /\ outState[l] \in {"closed", "errored"}
    /\ cons' = [cons EXCEPT ![l] = IF outState[l] = "closed" THEN "done" ELSE "failed"]
    /\ UNCHANGED <<source, stage, thrown, options, maxChunkDifference, locked,
                   srcPos, srcState, rawStream, inflight, legState, waiting,
                   chunkCount, out, outState>>

Cancel_release(l) ==
    /\ stage = "teed"
    /\ outState[l] = "readable"
    /\ cons[l] \in {"idle", "reading"}
    /\ outState' = [outState EXCEPT ![l] = "canceled"]
    /\ cons' = [cons EXCEPT ![l] = "canceled"]
    /\ rawStream' = [rawStream EXCEPT ![l] = <<>>]
    /\ inflight' = [inflight EXCEPT ![l] = IF legState[l] = "idle" THEN <<>> ELSE @]
    /\ srcState' = IF outState[Other(l)] = "canceled" /\ srcState = "readable"
                   THEN "canceled" ELSE srcState
    /\ waiting' = [waiting EXCEPT ![Other(l)] = FALSE]
    /\ legState' = [legState EXCEPT ![Other(l)] = IF waiting[Other(l)] THEN "woken" ELSE @]
    /\ UNCHANGED <<source, stage, thrown, options, maxChunkDifference, locked,
                   srcPos, chunkCount, out>>

\* output l is canceled by its consumer.  The readable side closes, the
\* writable side errors and the pipe cancels its tee branch; a write that
\* was waiting for a read is dropped, a transform() that is past its check
\* keeps its chunk.  The platform tee cancels the source when both branches
\* are canceled.
Cancel(l) ==
    /\ stage = "teed"
    /\ outState[l] = "readable"
    /\ cons[l] \in {"idle", "reading"}
    /\ outState' = [outState EXCEPT ![l] = "canceled"]
    /\ cons' = [cons EXCEPT ![l] = "canceled"]
    /\ rawStream' = [rawStream EXCEPT ![l] = <<>>]
    /\ inflight' = [inflight EXCEPT ![l] = IF legState[l] = "idle" THEN <<>> ELSE @]
    /\ srcState' = IF outState[Other(l)] = "canceled" /\ srcState = "readable"
                   THEN "canceled" ELSE srcState
    /\ UNCHANGED <<source, stage, thrown, options, maxChunkDifference, locked,
                   srcPos, legState, waiting, chunkCount, out>>

\* ------------------------------------------------------------- transform()
\* chunkCount++; controller.enqueue(chunk); if (waitingOther) waitingOther();
\* On a canceled output enqueue throws, after the increment and before the
\* wake.  The finished write lets the pipe write the next queued chunk.
ForwardStep(l) ==
    LET o == Other(l)
        live == outState[l] = "readable"
        wake == live /\ WakesSibling(waiting[o])
        p == Pipe(rawStream[l], <<>>)
    IN /\ chunkCount' = [chunkCount EXCEPT ![l] = @ + 1]
       /\ out' = [out EXCEPT ![l] = IF live THEN Enqueue(@, inflight[l][1]) ELSE @]
       /\ cons' = [cons EXCEPT ![l] = IF live THEN "idle" ELSE @]
       /\ waiting' = [waiting EXCEPT ![o] = IF wake THEN ClearedSlot ELSE @]
       /\ legState' = [legState EXCEPT ![l] = "idle",
                                       ![o] = IF wake THEN "woken" ELSE @]
       /\ rawStream' = [rawStream EXCEPT ![l] = p.queue]
       /\ inflight' = [inflight EXCEPT ![l] = p.write]

\* transform(chunk, controller) is called for the pending write once the
\* consumer has a read outstanding.  Either it registers its wake callback
\* and awaits it, or it forwards at once.  A woken sibling's continuation
\* was queued by resolve() before this leg's previous transform() returned,
\* so it runs before this leg's next transform() is called.
Transform(l) ==
    /\ stage = "teed"
    /\ outState[l] = "readable"
    /\ cons[l] = "reading"
    /\ inflight[l] # <<>>
    /\ legState[l] = "idle"
    /\ legState[Other(l)] # "woken"
    /\ IF TooFarAhead(chunkCount[l], chunkCount[Other(l)], maxChunkDifference)
       THEN /\ waiting' = [waiting EXCEPT ![l] = TRUE]
            /\ legState' = [legState EXCEPT ![l] = "suspended"]
            /\ UNCHANGED <<chunkCount, out, cons, rawStream, inflight>>
       ELSE ForwardStep(l)
    /\ UNCHANGED <<source, stage, thrown, options, maxChunkDifference, locked,
                   srcPos, srcState, outState>>

\* the continuation of transform() after its wake callback has run
Resume(l) ==
    /\ legState[l] = "woken"
    /\ ForwardStep(l)
    /\ UNCHANGED <<source, stage, thrown, options, maxChunkDifference, locked,
                   srcPos, srcState, outState>>

\* -------------------------------------------------------------- pipeThrough
\* the branch is closed and drained and every write has finished: the pipe
\* closes the transform, whose readable side closes
PipeClose(l) ==
    /\ srcState = "closed"
    /\ outState[l] = "readable"
    /\ rawStream[l] = <<>>
    /\ inflight[l] = <<>>
    /\ outState' = [outState EXCEPT ![l] = "closed"]
    /\ UNCHANGED <<source, stage, thrown, options, maxChunkDifference, locked,
                   srcPos, srcState, rawStream, inflight, legState, waiting,
                   chunkCount, out, cons>>

\* the branch is errored: once the pending write has finished the pipe
\* aborts the transform, whose readable side errors
PipeAbort(l) ==
    /\ srcState = "errored"
    /\ outState[l] = "readable"
    /\ inflight[l] = <<>>
    /\ outState' = [outState EXCEPT ![l] = "errored"]
    /\ UNCHANGED <<source, stage, thrown, options, maxChunkDifference, locked,
                   srcPos, srcState, rawStream, inflight, legState, waiting,
                   chunkCount, out, cons>>

\* ------------------------------------------------------------ specification
Next ==
    \/ \E s \in StreamArgs, o \in OptionArgs : stage # "teed" /\ Tee(s, o)
    \/ TeePull
    \/ TeeClose
    \/ SourceError
    \/ \E l \in Legs : Read(l)
    \/ \E l \in Legs : ReadSettle(l)
    \/ \E l \in Legs : Cancel(l)
    \/ \E l \in Legs : Transform(l)
    \/ \E l \in Legs : Resume(l)
    \/ \E l \in Legs : PipeClose(l)
    \/ \E l \in Legs : PipeAbort(l)

Spec == Init /\ [][Next]_vars

\* Consumers that keep reading and a platform that keeps running: every
\* step except a cancel, a source failure and the tee call itself is taken
\* if it stays enabled.
Fairness ==
    /\ WF_vars(TeePull)
    /\ WF_vars(TeeClose)
    /\ \A l \in Legs :
        /\ WF_vars(Read(l))
        /\ WF_vars(ReadSettle(l))
        /\ WF_vars(Transform(l))
        /\ WF_vars(Resume(l))
        /\ WF_vars(PipeClose(l))
        /\ WF_vars(PipeAbort(l))

FairSpec == Spec /\ Fairness

\* ------------------------------------------- the fixed-bound tee(stream)
\* const MAX_CHUNK_DIFFERENCE = 1
MAX_CHUNK_DIFFERENCE == 1

\* chunkCount1 >= chunkCount2 + MAX_CHUNK_DIFFERENCE
FixedTooFarAhead(own, other) == own >= other + MAX_CHUNK_DIFFERENCE

\* tee(stream) of the fixed-bound version: one check of the argument, then
\* stream.tee(), the const counters and the wake slots
FixedTee(stream) ==
    /\ stage # "teed"
    /\ IF ~IsReadableStream(stream)
       THEN /\ stage' = "threw"
            /\ thrown' = "Argument must be a ReadableStream"
            /\ UNCHANGED <<maxChunkDifference, locked>>
       ELSE IF ThrowsIfLocked(locked)
       THEN /\ stage' = "threw"
            /\ thrown' = LockedError
            /\ UNCHANGED <<maxChunkDifference, locked>>
       ELSE /\ stage' = "teed"
            /\ thrown' = ""
            /\ maxChunkDifference' = [kind |-> "number", n |-> MAX_CHUNK_DIFFERENCE]
            /\ locked' = TRUE
    /\ UNCHANGED <<source, options, srcPos, srcState, rawStream, inflight,
                   legState, waiting, chunkCount, out, outState, cons>>

\* chunkCount1++ on the binding declared `const chunkCount1 = 0` throws a
\* TypeError before controller.enqueue is reached: the counter keeps its
\* value, nothing is enqueued, the sibling is not woken.  The rejected
\* transform() errors both sides of the TransformStream and the pipe
\* cancels its tee branch (the source too if the other branch is canceled).
FixedForwardStep(l) ==
    /\ outState' = [outState EXCEPT ![l] = "errored"]
    /\ rawStream' = [rawStream EXCEPT ![l] = <<>>]
    /\ inflight' = [inflight EXCEPT ![l] = <<>>]
    /\ srcState' = IF BranchCanceled(Other(l)) /\ srcState = "readable"
                   THEN "canceled" ELSE srcState
    /\ UNCHANGED <<chunkCount, out, cons, waiting, legState>>

\* transform(chunk, controller) of the fixed-bound version
FixedTransform(l) ==
    /\ stage = "teed"
    /\ outState[l] = "readable"
    /\ cons[l] = "reading"
    /\ inflight[l] # <<>>
    /\ legState[l] = "idle"
    /\ IF FixedTooFarAhead(chunkCount[l], chunkCount[Other(l)])
       THEN /\ waiting' = [waiting EXCEPT ![l] = TRUE]
            /\ legState' = [legState EXCEPT ![l] = "suspended"]
            /\ UNCHANGED <<chunkCount, out, cons, rawStream, inflight,
                           outState, srcState>>
       ELSE FixedForwardStep(l)
    /\ UNCHANGED <<source, stage, thrown, options, maxChunkDifference, locked,
                   srcPos>>

\* The counters never leave 0, so the await of the fixed-bound transform()
\* is never reached and it has no continuation step.
FixedNext ==
    \/ \E s \in StreamArgs : FixedTee(s)
    \/ TeePull
    \/ TeeClose
    \/ SourceError
    \/ \E l \in Legs : Read(l)
    \/ \E l \in Legs : ReadSettle(l)
    \/ \E l \in Legs : Cancel(l)
    \/ \E l \in Legs : FixedTransform(l)
    \/ \E l \in Legs : PipeClose(l)
    \/ \E l \in Legs : PipeAbort(l)

FixedSpec == Init /\ [][FixedNext]_vars

\* Runs in which tee and getReader are called on the source at any time,
\* also after a call has returned; short sources of one repeated chunk.
CallSources ==
    {s \in Sources : Len(s) <= MaxCallLen /\ \A i \in 1..Len(s) : s[i] = "a"}

CallInit == Init /\ source \in CallSources

CallNext ==
    \/ Next
    \/ \E s \in StreamArgs, o \in OptionArgs : Tee(s, o)
    \/ GetReader

CallSpec == CallInit /\ [][CallNext]_vars

TypeOK ==
    /\ source \in Sources
    /\ stage \in {"init", "threw", "teed"}
    /\ srcPos \in 0..Len(source)
    /\ srcState \in {"readable", "closed", "errored", "canceled"}
    /\ \A l \in Legs :
        /\ legState[l] \in {"idle", "suspended", "woken"}
        /\ waiting[l] \in BOOLEAN
        /\ chunkCount[l] \in 0..(MaxLen + 1)
        /\ Len(inflight[l]) <= 1
        /\ outState[l] \in {"readable", "closed", "errored", "canceled"}
        /\ cons[l] \in {"idle", "reading", "done", "failed", "canceled"}

\* ------------------------------------------------------------- properties
IsPrefix(p, s) == Len(p) <= Len(s) /\ \A i \in 1..Len(p) : p[i] = s[i]

Teed == stage = "teed"

\* tee was called with the finite bound k
Bound(k) == Teed /\ maxChunkDifference = [kind |-> "number", n |-> k]

AnyCanceled == \E l \in Legs : outState[l] = "canceled"

\* everything the platform tee has handed to leg l that is not lost:
\* delivered, in the transform, or still queued in the branch
Held(l) == out[l] \o inflight[l] \o rawStream[l]

\* C1: in every reachable state, for every bound and every source, what
\* each output has emitted so far is a prefix of the source sequence.
C1_OutputIsPrefix == \A l \in Legs : IsPrefix(out[l], source)

\* one output has emitted the whole of a source of two or more items while
\* the other is behind
C1_Witness ==
    /\ Teed /\ Len(source) >= 2
    /\ out[1] = source /\ Len(out[2]) < Len(out[1])
    /\ source[1] # source[2]

\* C2: once tee has returned, if the source does not fail and no output is
\* canceled, both outputs eventually have emitted all of the source and
\* both consumers have seen end-of-stream (so no leg stays suspended).
C2_BothDrain ==
    Teed ~> (\/ srcState = "errored"
             \/ AnyCanceled
             \/ \A l \in Legs : out[l] = source /\ cons[l] = "done")

\* lockstep bound, longest source, both consumers at end-of-stream
C2_Witness ==
    /\ Bound(0) /\ Len(source) = MaxLen
    /\ \A l \in Legs : out[l] = source /\ cons[l] = "done"

\* C3: for every finite maxChunkDifference d, in every state
\* |chunkCount1 - chunkCount2| <= d.
C3_WithinD ==
    (Teed /\ maxChunkDifference.kind = "number") =>
        \A l \in Legs : chunkCount[l] - chunkCount[Other(l)] <= maxChunkDifference.n

\* C4: tee called without maxChunkDifference (default 1): an output has
\* emitted its second item only if the other output has emitted its first.
C4_SecondWaitsForFirst ==
    (Teed /\ options.kind = "omitted") =>
        \A l \in Legs : Len(out[l]) >= 2 => Len(out[Other(l)]) >= 1

C7_Unbounded ==
    (Teed /\ maxChunkDifference.kind = "Infinity") =>
        \A l \in Legs :
            /\ ~waiting[l] /\ legState[l] = "idle"
            /\ (outState[l] = "readable" /\ srcState \in {"readable", "closed"})
                   => Held(l) = SubSeq(source, 1, srcPos)
            /\ outState[l] = "closed" => out[l] = source

\* output 1 drained to end-of-stream while output 2 has read nothing and
\* still has the whole source buffered
C7_Witness ==
    /\ Teed /\ maxChunkDifference.kind = "Infinity" /\ Len(source) = MaxLen
    /\ cons[1] = "done" /\ out[1] = source
    /\ cons[2] = "idle" /\ out[2] = <<>> /\ Held(2) = source

\* C8: once an output is canceled, the other output, unless it is canceled
\* too or the source fails, eventually emits the whole source and closes.
C8_CancelReleasesSibling ==
    /\ (outState[1] = "canceled")
          ~> (\/ outState[2] = "canceled" \/ srcState = "errored"
              \/ (out[2] = source /\ cons[2] = "done"))
    /\ (outState[2] = "canceled")
          ~> (\/ outState[1] = "canceled" \/ srcState = "errored"
              \/ (out[1] = source /\ cons[1] = "done"))

\* C9: a source failure is never reported as a normal end, and unless an
\* output is canceled both consumers eventually get the error, also when
\* a leg is suspended at the time of the failure.
C9_ErrorSurfaces ==
    /\ [](srcState = "errored" =>
            \A l \in Legs : outState[l] # "closed" /\ cons[l] # "done")
    /\ (srcState = "errored")
          ~> (AnyCanceled \/ \A l \in Legs : cons[l] = "failed")

\* the source has failed while leg 1 is suspended waiting for leg 2
C9_Witness ==
    /\ srcState = "errored" /\ legState[1] = "suspended" /\ waiting[1]
    /\ outState[2] = "readable" /\ ~AnyCanceled

\* C10: for a source without items, for every bound: nothing is emitted,
\* no leg is suspended, both counters stay 0, and unless the source fails
\* a read never settles with anything but end-of-stream.
C10_EmptySource ==
    (Teed /\ source = <<>>) =>
        \A l \in Legs :
            /\ chunkCount[l] = 0 /\ out[l] = <<>>
            /\ ~waiting[l] /\ legState[l] = "idle"
            /\ srcState # "errored" => cons[l] # "failed"

\* both consumers of an empty source have read end-of-stream
C10_Witness ==
    /\ Teed /\ source = <<>>
    /\ \A l \in Legs : cons[l] = "done" /\ outState[l] = "closed"

\* ------------------------------------------------ properties of the call
NotAStream == "Argument must be a ReadableStream"

BadOption == "maxChunkDifference must be a non-negative number"

\* the state tee's closure and the platform objects hold
streaming == <<maxChunkDifference, locked, srcPos, srcState, rawStream,
               inflight, legState, waiting, chunkCount, out, outState, cons>>

\* C11: every call of tee whose first argument is a string, a number, a
\* plain object or null throws the TypeError 'Argument must be a
\* ReadableStream', whatever the options, and creates no tee: no streams
\* are returned and nothing else changes.
C11_NonStreamThrows ==
    [][\A s \in {"string", "number", "object", "null"}, o \in OptionArgs :
          Tee(s, o) => /\ thrown' = NotAStream
                       /\ stage' = "teed" => stage = "teed"
                       /\ UNCHANGED streaming]_vars

\* a call with a non-stream argument has thrown
C11_Witness == stage = "threw" /\ thrown = NotAStream /\ ~locked

\* C12: a call of tee on the source throws 'maxChunkDifference must be a
\* non-negative number' if and only if maxChunkDifference is supplied and
\* is a non-number, NaN or negative; with any other value a call on the
\* unlocked source returns the streams with that bound, 1 when omitted.
C12_OptionValidation ==
    [][\A o \in OptionArgs :
          Tee("ReadableStream", o) =>
              LET bad == \/ o.kind \in {"string", "NaN"}
                         \/ (o.kind = "number" /\ o.n < 0)
              IN /\ thrown' = BadOption <=> bad
                 /\ (~bad /\ ~locked) =>
                       /\ thrown' = "" /\ stage' = "teed"
                       /\ maxChunkDifference' =
                              IF o.kind = "omitted"
                              THEN [kind |-> "number", n |-> 1] ELSE o]_vars

\* a call with maxChunkDifference: NaN has thrown
C12_Witness == stage = "threw" /\ thrown = BadOption /\ options.kind = "NaN"

\* C13: a call of tee that rejects its arguments throws its validation
\* error also on a locked source, and leaves the source's lock, the source
\* position and the whole coordination state as they were, so that a later
\* call on an unlocked source still finds it unlocked.
C13_RejectsBeforeTee ==
    [][\A s \in StreamArgs, o \in OptionArgs :
          (Tee(s, o) /\ (s # "ReadableStream" \/ o.kind \in {"string", "NaN"}
                           \/ (o.kind = "number" /\ o.n < 0)))
              => /\ thrown' \in {NotAStream, BadOption}
                 /\ UNCHANGED streaming]_vars

\* tee(source, {maxChunkDifference: -1}) has thrown and the source is
\* unlocked and unread
C13_Witness ==
    /\ stage = "threw" /\ thrown = BadOption
    /\ options = [kind |-> "number", n |-> -1]
    /\ ~locked /\ srcPos = 0

\* C14: once tee has returned, the source stays locked in every state, and
\* every later getReader() on it and every later tee call on it throws and
\* changes nothing.
C14_SourceLocked ==
    /\ [](Teed => locked)
    /\ [][Teed => /\ GetReader => (thrown' = LockedError /\ UNCHANGED streaming)
                  /\ \A o \in OptionArgs :
                        Tee("ReadableStream", o)
                            => (thrown' # "" /\ UNCHANGED streaming)]_vars

\* a second attempt on the source has failed in mid-stream
C14_Witness ==
    /\ Teed /\ thrown = LockedError
    /\ Len(out[1]) = 1 /\ legState[1] = "suspended"

\* C15: fixed-bound tee: unless the source fails or an output is canceled,
\* no forwarding step raises an error (no output is errored) and an output
\* that has reached end-of-stream has emitted exactly the source.
C15_FixedTeeDrains ==
    (Teed /\ srcState # "errored" /\ ~AnyCanceled) =>
        \A l \in Legs : /\ outState[l] # "errored"
                        /\ cons[l] = "done" => out[l] = source

C17_WakeExactlyOnce ==
    /\ [][\A x \in Legs :
            /\ chunkCount'[Other(x)] = chunkCount[Other(x)] + 1
                   => (~waiting'[x] /\ (waiting[x] => legState'[x] = "woken"))
            /\ (legState'[x] = "woken" /\ legState[x] # "woken")
                   => /\ legState[x] = "suspended" /\ waiting[x]
                      /\ chunkCount'[Other(x)] = chunkCount[Other(x)] + 1
            /\ (legState[x] = "woken" /\ legState'[x] # "woken")
                   => /\ legState'[x] = "idle"
                      /\ chunkCount'[x] = chunkCount[x] + 1
                      /\ outState[x] = "readable" => Len(out'[x]) = Len(out[x]) + 1]_vars
    /\ (legState[1] = "woken") ~> (legState[1] = "idle")
    /\ (legState[2] = "woken") ~> (legState[2] = "idle")

\* leg 2 has just forwarded and woken leg 1, whose slot is empty again
C17_Witness ==
    /\ legState[1] = "woken" /\ ~waiting[1] /\ inflight[1] # <<>>
    /\ chunkCount[2] >= 1 /\ outState[1] = "readable"

\* C18: a wake slot is occupied exactly while its leg's transform() is
\* suspended, and a leg registers a callback only when it is idle and its
\* slot is empty.
C18_OneWakePerLeg ==
    /\ [](\A l \in Legs : waiting[l] <=> legState[l] = "suspended")
    /\ [][\A l \in Legs :
            (legState'[l] = "suspended" /\ legState[l] # "suspended")
                => (legState[l] = "idle" /\ ~waiting[l] /\ waiting'[l])]_vars

\* leg 1 is suspended for the second time, after its first suspension was
\* released
C18_Witness ==
    /\ Bound(0) /\ waiting[1] /\ ~waiting[2]
    /\ chunkCount[1] = 2 /\ chunkCount[2] = 1 /\ legState[2] = "idle"

\* C19: from its suspension until its continuation runs, a leg's counter,
\* its output and the chunk it holds do not change; the chunk it holds is
\* the source item after the ones it has emitted; and its continuation, on
\* an output that still accepts chunks, emits exactly that chunk.
C19_SuspendedFrame ==
    /\ [](\A x \in Legs :
            legState[x] # "idle" => inflight[x] = <<source[Len(out[x]) + 1]>>)
    /\ [][\A x \in Legs :
            /\ (legState[x] = "suspended"
                    \/ (legState[x] = "woken" /\ legState'[x] = "woken"))
                   => /\ chunkCount'[x] = chunkCount[x]
                      /\ out'[x] = out[x]
                      /\ inflight'[x] = inflight[x]
            /\ (legState[x] = "woken" /\ legState'[x] # "woken"
                    /\ outState[x] = "readable")
                   => out'[x] = Append(out[x], inflight[x][1])]_vars

\* leg 1 is suspended on the third item after emitting two
C19_Witness ==
    /\ legState[1] = "suspended" /\ outState[1] = "readable"
    /\ Len(out[1]) = 2 /\ Len(source) = 3 /\ source[3] # source[2]
    /\ inflight[1] = <<source[3]>>

\* C20: in every step in which the sibling's counter does not advance, a
\* suspended leg stays suspended with its callback in its slot: neither a
\* read, a cancel, a close, a source failure nor the passing of time
\* releases it.
C20_OnlySiblingReleases ==
    [][\A x \in Legs :
          (legState[x] = "suspended"
              /\ chunkCount'[Other(x)] = chunkCount[Other(x)])
              => (legState'[x] = "suspended" /\ waiting'[x])]_vars

\* leg 1 is suspended and its sibling, canceled, will not forward again
C20_Witness ==
    /\ legState[1] = "suspended" /\ waiting[1]
    /\ outState[2] = "canceled" /\ legState[2] = "idle"

\* C21: while no output is canceled, a leg is never suspended when its
\* sibling has emitted the whole source, has closed or has been read to
\* end-of-stream.
C21_NoSuspensionOnFinishedSibling ==
    ~AnyCanceled =>
        \A l \in Legs :
            legState[l] = "suspended"
                => /\ Len(out[Other(l)]) < Len(source)
                   /\ outState[Other(l)] # "closed"
                   /\ cons[Other(l)] # "done"

\* lockstep bound: leg 2 has finished while leg 1, not suspended, still has
\* an item to emit
C21_Witness ==
    /\ Bound(0) /\ ~AnyCanceled /\ Len(source) >= 2
    /\ out[2] = source /\ outState[2] = "closed" /\ cons[2] = "done"
    /\ Len(out[1]) < Len(source) /\ legState[1] = "idle"

\* C22: in every reachable state each counter equals the number of items
\* emitted on its leg's output.
C22_CounterIsEmitted == \A l \in Legs : chunkCount[l] = Len(out[l])

\* C23: for every bound, the two legs are never suspended at the same time.
C23_NeverBothSuspended ==
    ~(legState[1] = "suspended" /\ legState[2] = "suspended")
        /\ ~(waiting[1] /\ waiting[2])

\* leg 1 is suspended while leg 2's transform() is about to run its check
C23_Witness ==
    /\ Bound(1) /\ legState[1] = "suspended"
    /\ legState[2] = "idle" /\ cons[2] = "reading" /\ inflight[2] # <<>>
    /\ outState[2] = "readable"

\* C24: for every finite maxChunkDifference d, while no output is canceled,
\* the two counters differ by at most d + 1.
C24_WithinDPlusOne ==
    (Teed /\ maxChunkDifference.kind = "number" /\ ~AnyCanceled) =>
        \A l \in Legs :
            chunkCount[l] - chunkCount[Other(l)] <= maxChunkDifference.n + 1

\* lockstep bound: leg 2, woken on its third item, has forwarded it without
\* a second check and leads by d + 1 = 1
C24_Witness ==
    /\ Bound(0) /\ ~AnyCanceled
    /\ chunkCount[2] = 3 /\ chunkCount[1] = 2 /\ srcState = "closed"

====
